---- MODULE Spec2Model ----
(***************************************************************************)
(* Trainset.train() of the three domain-adaptation strategies of           *)
(* src/models: IRM.py, MCD.py and MDD.py.  The three methods share one     *)
(* control skeleton (mode dispatch, optimizer construction, epoch loop,    *)
(* phase loop, batch loop, phase summary, scheduler step) and differ in    *)
(* the statements executed for one batch.  The skeleton is modelled by     *)
(* one action per statement group; the per-batch statements are modelled   *)
(* as instruction tables (one table per strategy and phase) executed one   *)
(* statement at a time.                                                    *)
(*                                                                         *)
(* The networks, the loss functions and the data loaders are external.    *)
(* A batch carries an abstract level q in Levels, chosen when the batch    *)
(* is drawn; every statistic computed from a forward pass is a fixed       *)
(* function of the levels of the batches fed to that pass.  A data loader  *)
(* holds at least one batch.                                               *)
(***************************************************************************)
EXTENDS Integers, Sequences, FiniteSets, TLC

VARIABLES
    strategy,      \* "IRM" | "MCD" | "MDD": which Trainset is running
    train_mode,    \* args.train_mode
    max_epoch,     \* args.max_epoch
    loaderLen,     \* len(self.iters[phase]) for phase in {train, val}
    pc,            \* position in train()
    ip,            \* index of the next statement of the batch body
    error,         \* the exception that ended train(), "none" otherwise
    src,           \* local src
    optimizers,    \* the optimizers constructed so far
    lr_scheduler,  \* scheduler name -> "None" | "sched" (empty before construction)
    sched_steps,   \* scheduler name -> number of step() calls
    best_acc,      \* local best_acc, a fraction <<numerator, denominator>>
    best_epoch,    \* local best_epoch
    epoch,         \* loop variable epoch (0 before the loop)
    phase,         \* loop variable phase
    num_iter,      \* local num_iter
    i,             \* number of iterations of the batch loop started in this phase
    tradeoff,      \* the epoch number the local tradeoff was resolved from (0: unbound)
    epoch_acc,     \* defaultdict epoch_acc
    epoch_loss,    \* defaultdict epoch_loss
    reported,      \* what the phase summary logged last
    training,      \* sub-network -> its nn.Module.training flag
    opt_steps,     \* optimizer name -> number of step() calls (parameter updates)
    grad,          \* optimizer name -> backward passes accumulated in its parameters' .grad
    grl_iter,      \* iteration counter of the MDD gradient-reversal layer
    drawn,         \* stream key -> number of batches get_next_batch has delivered
    target_batch,  \* locals target_data, target_labels
    source_batch,  \* locals source_data, source_labels
    out,           \* the levels of the chunks of the latest forward pass's output
    valAccs,       \* history: the validation accuracy of each finished epoch
    phaseSum,      \* history: metric -> sum of the contributions made in this phase
    batchLog,      \* history: the statements executed in the current iteration
    scale,         \* penalty module -> the value of its tensor self.scale
    fwd,           \* the mode flags and the return shape of the latest forward pass
    resolved,      \* history: the calls of self._get_tradeoff, as <<epoch, phase, value>>
    call,          \* a call of a function of the modules on its own: its name and arguments
    result         \* what that call returned

vars == << strategy, train_mode, max_epoch, loaderLen, pc, ip, error, src,
           optimizers, lr_scheduler, sched_steps, best_acc, best_epoch, epoch,
           phase, num_iter, i, tradeoff, epoch_acc, epoch_loss, reported,
           training, opt_steps, grad, grl_iter, drawn, target_batch,
           source_batch, out, valAccs, phaseSum, batchLog, scale, fwd,
           resolved, call, result >>

----------------------------------------------------------------------------
\* Bounds of the model.
MaxEpoch == 2
MaxIter == 2

\* for k in range(4): the repetitions of MCD's Step 3.
RepeatG == 4

Strategies == {"IRM", "MCD", "MDD"}
TrainModes == {"supervised", "single_source", "source_combine", "multi_source", "other"}
SupportedModes == {"supervised", "single_source", "source_combine"}
Phases == <<"train", "val">>

\* args.source_name, a list of domain names.
SourceName == <<"S1", "S2">>

\* Python's None, and the marker of a local that was never assigned.
None == << >>
Unbound == << "<unbound>" >>

\* The key of a stream of self.iters named by one string.
Key(name) == << name >>
StreamKeys ==
    {Key("train"), Key("val")}
        \cup {Key(SourceName[j]) : j \in 1..Len(SourceName)} \cup {SourceName}

\* The levels of a batch: the network gets its samples wrong (0) or right (1).
Levels == {0, 1}

NoBatch == [key |-> None, n |-> 0, q |-> 0]

Optimizers(s) == IF s = "MCD" THEN {"optimizer_G", "optimizer_C"} ELSE {"optimizer"}
Schedulers(s) == IF s = "MCD" THEN {"lr_scheduler_G", "lr_scheduler_C"} ELSE {"lr_scheduler"}
Nets(s) == IF s = "MCD" THEN {"G", "C1", "C2"} ELSE {"model"}

\* The modules that hold a tensor self.scale: self.irm of the IRM Trainset.
PenaltyModules(s) == IF s = "IRM" THEN {"irm"} ELSE {}

\* Mutant of OptimizedParams: the IRM optimizer is built over the penalty
\* module as well.
OptimizedParams_WithPenalty(s, o) ==
    CASE s = "MCD" /\ o = "optimizer_G" -> {"G"}
      [] s = "MCD" /\ o = "optimizer_C" -> {"C1", "C2"}
      [] OTHER -> {"model", "irm"}

\* What the optimizer named o of strategy s was constructed over.
OptimizedParams(s, o) ==
    CASE s = "MCD" /\ o = "optimizer_G" -> {"G"}
      [] s = "MCD" /\ o = "optimizer_C" -> {"C1", "C2"}
      [] OTHER -> {"model"}

\* defaultdict(float)
EmptyDict == [k \in {} |-> 0]
Get(d, k) == IF k \in DOMAIN d THEN d[k] ELSE 0
Add(d, k, v) == [x \in (DOMAIN d) \cup {k} |-> IF x = k THEN Get(d, k) + v ELSE d[x]]

\* Fractions <<numerator, denominator>> with a positive denominator.
\* No forward pass has run in this iteration; no call is under way.
NoForward == [training |-> EmptyDict, returns |-> "none"]
NoCall == [fn |-> "none"]
NoResult == [done |-> FALSE]

GE(a, b) == a[1] * b[2] >= b[1] * a[2]
GT(a, b) == a[1] * b[2] > b[1] * a[2]
FracEq(a, b) == a[1] * b[2] = b[1] * a[2]

----------------------------------------------------------------------------
\* The state of a Trainset after construction, before train() is called.
Constructed ==
    /\ strategy \in Strategies
    /\ train_mode \in TrainModes
    /\ max_epoch \in 0..MaxEpoch
    /\ loaderLen \in [{"train", "val"} -> 1..MaxIter]
    /\ pc = "start"
    /\ ip = 0
    /\ error = "none"
    /\ src = Unbound
    /\ optimizers = {}
    /\ lr_scheduler = EmptyDict
    /\ sched_steps = EmptyDict
    /\ best_acc = <<-1, 1>>
    /\ best_epoch = -1
    /\ epoch = 0
    /\ phase = "none"
    /\ num_iter = 0
    /\ i = 0
    /\ tradeoff = 0
    /\ epoch_acc = EmptyDict
    /\ epoch_loss = EmptyDict
    /\ reported = [loss |-> EmptyDict, acc |-> EmptyDict]
    /\ training = [n \in Nets(strategy) |-> TRUE]
    /\ opt_steps = [o \in Optimizers(strategy) |-> 0]
    /\ grad = [o \in Optimizers(strategy) |-> 0]
    /\ grl_iter = 0
    /\ drawn = [k \in StreamKeys |-> 0]
    /\ target_batch = NoBatch
    /\ source_batch = NoBatch
    /\ out = << >>
    /\ valAccs = << >>
    /\ phaseSum = EmptyDict
    /\ batchLog = << >>
    /\ scale = [m \in PenaltyModules(strategy) |-> 1]
    /\ fwd = NoForward
    /\ resolved = << >>

Init ==
    /\ Constructed
    /\ call = NoCall
    /\ result = NoResult

config == << strategy, train_mode, max_epoch, loaderLen >>
pure == << call, result >>

\* self._init_data()
InitData ==
    /\ pc = "start"
    /\ pc' = "mode"
    /\ UNCHANGED << config, pure, scale, fwd, resolved,
                    ip, error, src, optimizers, lr_scheduler, sched_steps,
                    best_acc, best_epoch, epoch, phase, num_iter, i, tradeoff,
                    epoch_acc, epoch_loss, reported, training, opt_steps, grad,
                    grl_iter, drawn, target_batch, source_batch, out, valAccs,
                    phaseSum, batchLog >>

\* Mutant of ModeRaises: the multi_source branch is missing.
ModeRaises_Never(mode) == FALSE

\* elif args.train_mode == 'multi_source': raise Exception(...)
ModeRaises(mode) == mode = "multi_source"

\* Mutant of SrcOf: single_source keeps the whole list instead of its first name.
SrcOf_WholeList(mode) ==
    CASE mode = "supervised" -> None
      [] mode = "single_source" -> SourceName
      [] mode = "source_combine" -> SourceName
      [] OTHER -> Unbound

\* The if/elif chain that assigns src; it has no else branch, so any other
\* mode leaves src unassigned.
SrcOf(mode) ==
    CASE mode = "supervised" -> None
      [] mode = "single_source" -> Key(SourceName[1])
      [] mode = "source_combine" -> SourceName
      [] OTHER -> Unbound

\* The dispatch on args.train_mode.
ResolveSource ==
    /\ pc = "mode"
    /\ IF ModeRaises(train_mode)
          THEN /\ pc' = "raised"
               /\ error' = "Exception"
               /\ src' = src
          ELSE /\ pc' = "optim"
               /\ error' = error
               /\ src' = SrcOf(train_mode)
    /\ UNCHANGED << config, pure, scale, fwd, resolved,
                    ip, optimizers, lr_scheduler, sched_steps,
                    best_acc, best_epoch, epoch, phase, num_iter, i, tradeoff,
                    epoch_acc, epoch_loss, reported, training, opt_steps, grad,
                    grl_iter, drawn, target_batch, source_batch, out, valAccs,
                    phaseSum, batchLog >>

\* self._get_optimizer(...) and self._get_lr_scheduler(...): the scheduler
\* policy of args decides whether the schedulers are None.
GetOptimizers ==
    /\ pc = "optim"
    /\ optimizers' = Optimizers(strategy)
    /\ \E r \in {"None", "sched"} : lr_scheduler' = [s \in Schedulers(strategy) |-> r]
    /\ sched_steps' = [s \in Schedulers(strategy) |-> 0]
    /\ pc' = "best"
    /\ UNCHANGED << config, pure, scale, fwd, resolved,
                    ip, error, src,
                    best_acc, best_epoch, epoch, phase, num_iter, i, tradeoff,
                    epoch_acc, epoch_loss, reported, training, opt_steps, grad,
                    grl_iter, drawn, target_batch, source_batch, out, valAccs,
                    phaseSum, batchLog >>

\* best_acc = 0.0; best_epoch = 0
InitBest ==
    /\ pc = "best"
    /\ best_acc' = <<0, 1>>
    /\ best_epoch' = 0
    /\ pc' = "epoch_head"
    /\ UNCHANGED << config, pure, scale, fwd, resolved,
                    ip, error, src, optimizers, lr_scheduler, sched_steps,
                    epoch, phase, num_iter, i, tradeoff,
                    epoch_acc, epoch_loss, reported, training, opt_steps, grad,
                    grl_iter, drawn, target_batch, source_batch, out, valAccs,
                    phaseSum, batchLog >>

\* Mutant of EpochContinues: the range runs one epoch too far.
EpochContinues_OneMore(e) == e <= max_epoch

\* range(1, args.max_epoch+1) has a next element after e.
EpochContinues(e) == e + 1 <= max_epoch

\* for epoch in range(1, args.max_epoch+1): the loop test, and the start of
\* the inner loop over ['train', 'val'].
EpochHead ==
    /\ pc = "epoch_head"
    /\ IF EpochContinues(epoch)
          THEN /\ epoch' = epoch + 1
               /\ phase' = Phases[1]
               /\ pc' = "phase_head"
          ELSE /\ pc' = "done"
               /\ UNCHANGED << epoch, phase >>
    /\ UNCHANGED << config, pure, scale, fwd, resolved,
                    ip, error, src, optimizers, lr_scheduler, sched_steps,
                    best_acc, best_epoch, num_iter, i, tradeoff,
                    epoch_acc, epoch_loss, reported, training, opt_steps, grad,
                    grl_iter, drawn, target_batch, source_batch, out, valAccs,
                    phaseSum, batchLog >>

\* Mutant of FreshAcc: epoch_acc is not created anew for the phase.
FreshAcc_Kept(old) == old

\* epoch_acc = defaultdict(float), executed at the start of every phase.
FreshAcc(old) == EmptyDict

\* epoch_loss = defaultdict(float), executed at the start of a train phase only.
FreshLoss(ph, old) == IF ph = "train" THEN EmptyDict ELSE old

\* Mutant of ResolveTradeoff: the tradeoff is resolved in every phase.
ResolveTradeoff_EveryPhase(ph, e, old) == e

\* self._get_tradeoff(args.tradeoff, epoch), executed in a train phase only.
ResolveTradeoff(ph, e, old) == IF ph = "train" THEN e ELSE old

\* Mutant of LoaderLenOf: num_iter is taken from the train loader in both phases.
LoaderLenOf_Train(ph) == loaderLen["train"]

\* num_iter = len(self.iters[phase])
LoaderLenOf(ph) == loaderLen[ph]

\* Mutant of ModeFlags: eval() is never called.
ModeFlags_NoEval(ph) == [n \in Nets(strategy) |-> TRUE]

\* self.model.train() / self.model.eval() (MCD: on G, C1 and C2).
ModeFlags(ph) == [n \in Nets(strategy) |-> ph = "train"]

\* The head of a phase: fresh accumulators, train()/eval() on every
\* sub-network, the tradeoff, and num_iter.
PhaseHead ==
    /\ pc = "phase_head"
    /\ epoch_acc' = FreshAcc(epoch_acc)
    /\ epoch_loss' = FreshLoss(phase, epoch_loss)
    /\ tradeoff' = ResolveTradeoff(phase, epoch, tradeoff)
    /\ resolved' = LET t == ResolveTradeoff(phase, epoch, -1)
                   IN  IF t = -1 THEN resolved
                                 ELSE Append(resolved, << epoch, phase, t >>)
    /\ training' = ModeFlags(phase)
    /\ num_iter' = LoaderLenOf(phase)
    /\ i' = 0
    /\ phaseSum' = EmptyDict
    /\ batchLog' = << >>
    /\ pc' = "iter_head"
    /\ UNCHANGED << config, pure, scale, fwd,
                    ip, error, src, optimizers, lr_scheduler, sched_steps,
                    best_acc, best_epoch, epoch, phase, reported, opt_steps, grad,
                    grl_iter, drawn, target_batch, source_batch, out, valAccs >>

\* for i in tqdm(range(num_iter)): the loop test.  The batch locals and the
\* outputs of the iteration that ended are dead here (every later read is
\* preceded by a new assignment), so the model forgets them.
IterHead ==
    /\ pc = "iter_head"
    /\ target_batch' = NoBatch
    /\ source_batch' = NoBatch
    /\ out' = << >>
    /\ fwd' = NoForward
    /\ IF i < num_iter
          THEN /\ i' = i + 1
               /\ batchLog' = << >>
               /\ pc' = "draw_target"
          ELSE /\ pc' = "phase_end"
               /\ UNCHANGED << i, batchLog >>
    /\ UNCHANGED << config, pure, scale, resolved,
                    ip, error, src, optimizers, lr_scheduler, sched_steps,
                    best_acc, best_epoch, epoch, phase, num_iter, tradeoff,
                    epoch_acc, epoch_loss, reported, training, opt_steps, grad,
                    grl_iter, drawn, valAccs, phaseSum >>

\* utils.get_next_batch(self.dataloaders, self.iters, key, self.device): the
\* next batch of the stream, whose content (level q) the loader decides.
NextBatch(key, q) == [key |-> key, n |-> drawn[key] + 1, q |-> q]

\* target_data, target_labels = utils.get_next_batch(..., phase, ...)
DrawTarget ==
    /\ pc = "draw_target"
    /\ \E q \in Levels : target_batch' = NextBatch(Key(phase), q)
    /\ drawn' = [drawn EXCEPT ![Key(phase)] = @ + 1]
    /\ batchLog' = Append(batchLog, <<"draw", phase>>)
    /\ IF phase = "train"
          THEN pc' = "select_source" /\ ip' = ip
          ELSE pc' = "body" /\ ip' = 1
    /\ UNCHANGED << config, pure, scale, fwd, resolved,
                    error, src, optimizers, lr_scheduler, sched_steps,
                    best_acc, best_epoch, epoch, phase, num_iter, i, tradeoff,
                    epoch_acc, epoch_loss, reported, training, opt_steps, grad,
                    grl_iter, source_batch, out, valAccs, phaseSum >>

\* if src != None: draw a source batch; else: the source batch is the target
\* batch.  Reading src when no branch of the dispatch assigned it raises
\* UnboundLocalError.
SelectSource ==
    /\ pc = "select_source"
    /\ IF src = Unbound
          THEN /\ pc' = "raised"
               /\ error' = "UnboundLocalError"
               /\ UNCHANGED << ip, source_batch, drawn, batchLog >>
          ELSE /\ pc' = "body"
               /\ ip' = 1
               /\ error' = error
               /\ IF src # None
                     THEN /\ \E q \in Levels : source_batch' = NextBatch(src, q)
                          /\ drawn' = [drawn EXCEPT ![src] = @ + 1]
                          /\ batchLog' = Append(batchLog, <<"draw", "src">>)
                     ELSE /\ source_batch' = target_batch
                          /\ UNCHANGED << drawn, batchLog >>
    /\ UNCHANGED << config, pure, scale, fwd, resolved,
                    src, optimizers, lr_scheduler, sched_steps,
                    best_acc, best_epoch, epoch, phase, num_iter, i, tradeoff,
                    epoch_acc, epoch_loss, reported, training, opt_steps, grad,
                    grl_iter, target_batch, out, valAccs, phaseSum >>

----------------------------------------------------------------------------
\* The statements of one batch, as <<operation, argument>>, in program order.

\* Mutant of IRM_TrainBody: the gradients are zeroed after the backward pass.
IRM_TrainBody_ZeroLate ==
    << <<"forward", "data">>,
       <<"loss", "loss">>,
       <<"acc", "Source Data">>,
       <<"sum_loss", "Source Classifier">>,
       <<"sum_loss", "Mk MMD">>,
       <<"sum_loss", "IRM">>,
       <<"backward", "loss">>,
       <<"zero_grad", "optimizer">>,
       <<"step", "optimizer">> >>

\* IRM.py, the train branch of the batch loop.
IRM_TrainBody ==
    << <<"zero_grad", "optimizer">>,
       <<"forward", "data">>,
       <<"loss", "loss">>,
       <<"acc", "Source Data">>,
       <<"sum_loss", "Source Classifier">>,
       <<"sum_loss", "Mk MMD">>,
       <<"sum_loss", "IRM">>,
       <<"backward", "loss">>,
       <<"step", "optimizer">> >>

\* IRM.py, the val branch of the batch loop.
IRM_ValBody ==
    << <<"forward", "target_data">>,
       <<"acc", "Target Data">> >>

\* Mutant of MCD_Step1: the optimizers are not zeroed again after their steps.
MCD_Step1_NoRezero ==
    << <<"zero_grad", "optimizer_G">>,
       <<"zero_grad", "optimizer_C">>,
       <<"forward", "data">>,
       <<"loss", "loss">>,
       <<"acc", "Classifier 1 source train">>,
       <<"acc", "Classifier 2 source train">>,
       <<"sum_loss", "Step 1: Source domain">>,
       <<"backward", "loss">>,
       <<"step", "optimizer_G">>,
       <<"step", "optimizer_C">> >>

\* MCD.py, Step 1: both optimizers zeroed, joint forward, backward, both
\* optimizers stepped, both zeroed again.
MCD_Step1 ==
    << <<"zero_grad", "optimizer_G">>,
       <<"zero_grad", "optimizer_C">>,
       <<"forward", "data">>,
       <<"loss", "loss">>,
       <<"acc", "Classifier 1 source train">>,
       <<"acc", "Classifier 2 source train">>,
       <<"sum_loss", "Step 1: Source domain">>,
       <<"backward", "loss">>,
       <<"step", "optimizer_G">>,
       <<"step", "optimizer_C">>,
       <<"zero_grad", "optimizer_G">>,
       <<"zero_grad", "optimizer_C">> >>

\* Mutant of MCD_Step2: Step 2 steps optimizer_G as well.
MCD_Step2_StepsG ==
    << <<"forward", "data">>,
       <<"loss", "loss">>,
       <<"sum_loss", "Step 2: Maximize discrepancy">>,
       <<"backward", "loss">>,
       <<"step", "optimizer_G">>,
       <<"step", "optimizer_C">> >>

\* MCD.py, Step 2: joint forward, backward, optimizer_C stepped.
MCD_Step2 ==
    << <<"forward", "data">>,
       <<"loss", "loss">>,
       <<"sum_loss", "Step 2: Maximize discrepancy">>,
       <<"backward", "loss">>,
       <<"step", "optimizer_C">> >>

\* MCD.py, one repetition of Step 3: optimizer_G zeroed, forward of the
\* target batch, backward, optimizer_G stepped.
MCD_Step3 ==
    << <<"zero_grad", "optimizer_G">>,
       <<"forward", "target_data">>,
       <<"loss", "loss">>,
       <<"sum_loss", "Step 3: Minimize discrepancy">>,
       <<"backward", "loss">>,
       <<"step", "optimizer_G">> >>

RECURSIVE Repeat(_, _)
Repeat(seq, n) == IF n = 0 THEN << >> ELSE seq \o Repeat(seq, n - 1)

\* MCD.py, the train branch of the batch loop.
MCD_TrainBody == MCD_Step1 \o MCD_Step2 \o Repeat(MCD_Step3, RepeatG)

\* MCD.py, the val branch of the batch loop.
MCD_ValBody ==
    << <<"forward", "target_data">>,
       <<"acc", "Classifier 1 Target Data">>,
       <<"acc", "Classifier 2 Target Data">>,
       <<"acc", "Target Data">> >>

\* Mutant of MDD_TrainBody: the schedule is advanced after the optimizer step.
MDD_TrainBody_StepLast ==
    << <<"zero_grad", "optimizer">>,
       <<"forward", "data">>,
       <<"loss", "loss">>,
       <<"acc", "Source train">>,
       <<"sum_loss", "Source domain">>,
       <<"sum_loss", "MDD">>,
       <<"backward", "loss">>,
       <<"step", "optimizer">>,
       <<"grl_step", "model">> >>

\* MDD.py, the train branch of the batch loop.
MDD_TrainBody ==
    << <<"zero_grad", "optimizer">>,
       <<"forward", "data">>,
       <<"loss", "loss">>,
       <<"grl_step", "model">>,
       <<"acc", "Source train">>,
       <<"sum_loss", "Source domain">>,
       <<"sum_loss", "MDD">>,
       <<"backward", "loss">>,
       <<"step", "optimizer">> >>

\* MDD.py, the val branch of the batch loop.
\* Mutant of MDD_ValBody: the schedule of the GRL is advanced in validation too.
MDD_ValBody_StepsGrl ==
    << <<"forward", "target_data">>,
       <<"grl_step", "model">>,
       <<"acc", "Target Data">> >>

MDD_ValBody ==
    << <<"forward", "target_data">>,
       <<"acc", "Target Data">> >>

BodyOf(s, ph) ==
    CASE s = "IRM" /\ ph = "train" -> IRM_TrainBody
      [] s = "IRM" /\ ph = "val" -> IRM_ValBody
      [] s = "MCD" /\ ph = "train" -> MCD_TrainBody
      [] s = "MCD" /\ ph = "val" -> MCD_ValBody
      [] s = "MDD" /\ ph = "train" -> MDD_TrainBody
      [] s = "MDD" /\ ph = "val" -> MDD_ValBody
      [] OTHER -> << >>

Body == BodyOf(strategy, phase)
Cur == Body[ip]
AtOp(op) == pc = "body" /\ ip \in 1..Len(Body) /\ Cur[1] = op

\* Control passes to the next statement of the body, or back to the loop test.
Advance ==
    IF ip < Len(Body)
       THEN pc' = "body" /\ ip' = ip + 1
       ELSE pc' = "iter_head" /\ ip' = 0

\* The value a statistic takes on an output whose chunks have levels o.
\* Every statistic the loops accumulate is computed from the first chunk
\* (the source half of a joint forward, the whole of a target forward): the
\* accuracies rise with its level, the losses fall with it.
Statistic(name, o) ==
    CASE name \in {"Source Classifier", "Source domain", "IRM", "Mk MMD", "MDD",
                   "Step 3: Minimize discrepancy"} -> 1 - o[1]
      [] name \in {"Step 1: Source domain", "Step 2: Maximize discrepancy"}
            -> 2 * (1 - o[1])
      [] OTHER -> o[1]

\* optimizer.zero_grad()
ZeroGrad ==
    /\ AtOp("zero_grad")
    /\ grad' = [grad EXCEPT ![Cur[2]] = 0]
    /\ batchLog' = Append(batchLog, Cur)
    /\ Advance
    /\ UNCHANGED << config, pure, scale, fwd, resolved,
                    error, src, optimizers, lr_scheduler, sched_steps,
                    best_acc, best_epoch, epoch, phase, num_iter, i, tradeoff,
                    epoch_acc, epoch_loss, reported, training, opt_steps,
                    grl_iter, drawn, target_batch, source_batch, out, valAccs,
                    phaseSum >>

\* torch.cat((source_data, target_data)) fed to the networks and the output
\* chunked in two, or target_data fed alone.
ForwardOf(input) ==
    IF input = "data" THEN << source_batch.q, target_batch.q >>
                      ELSE << target_batch.q >>

\* What the network returns: GeneralModule.forward of MDD returns the pair
\* (outputs, outputs_adv) when self.training and outputs alone otherwise;
\* the networks of the other strategies are external.
Returns(s, flags) ==
    IF s = "MDD" THEN (IF flags["model"] THEN "pair" ELSE "single")
                 ELSE "external"

Forward ==
    /\ AtOp("forward")
    /\ out' = ForwardOf(Cur[2])
    /\ fwd' = [training |-> training, returns |-> Returns(strategy, training)]
    /\ batchLog' = Append(batchLog, Cur)
    /\ Advance
    /\ UNCHANGED << config, pure, scale, resolved,
                    error, src, optimizers, lr_scheduler, sched_steps,
                    best_acc, best_epoch, epoch, phase, num_iter, i, tradeoff,
                    epoch_acc, epoch_loss, reported, training, opt_steps, grad,
                    grl_iter, drawn, target_batch, source_batch, valAccs,
                    phaseSum >>

\* The statements that compute the local loss from the outputs.
ComputeLoss ==
    /\ AtOp("loss")
    /\ batchLog' = Append(batchLog, Cur)
    /\ Advance
    /\ UNCHANGED << config, pure, scale, fwd, resolved,
                    error, src, optimizers, lr_scheduler, sched_steps,
                    best_acc, best_epoch, epoch, phase, num_iter, i, tradeoff,
                    epoch_acc, epoch_loss, reported, training, opt_steps, grad,
                    grl_iter, drawn, target_batch, source_batch, out, valAccs,
                    phaseSum >>

\* epoch_acc[name] += utils.get_accuracy(...)
AccumulateAcc ==
    /\ AtOp("acc")
    /\ epoch_acc' = Add(epoch_acc, Cur[2], Statistic(Cur[2], out))
    /\ phaseSum' = Add(phaseSum, Cur[2], Statistic(Cur[2], out))
    /\ batchLog' = Append(batchLog, Cur)
    /\ Advance
    /\ UNCHANGED << config, pure, scale, fwd, resolved,
                    error, src, optimizers, lr_scheduler, sched_steps,
                    best_acc, best_epoch, epoch, phase, num_iter, i, tradeoff,
                    epoch_loss, reported, training, opt_steps, grad,
                    grl_iter, drawn, target_batch, source_batch, out, valAccs >>

\* epoch_loss[name] += ...
AccumulateLoss ==
    /\ AtOp("sum_loss")
    /\ epoch_loss' = Add(epoch_loss, Cur[2], Statistic(Cur[2], out))
    /\ phaseSum' = Add(phaseSum, Cur[2], Statistic(Cur[2], out))
    /\ batchLog' = Append(batchLog, Cur)
    /\ Advance
    /\ UNCHANGED << config, pure, scale, fwd, resolved,
                    error, src, optimizers, lr_scheduler, sched_steps,
                    best_acc, best_epoch, epoch, phase, num_iter, i, tradeoff,
                    epoch_acc, reported, training, opt_steps, grad,
                    grl_iter, drawn, target_batch, source_batch, out, valAccs >>

\* self.model.step(): GeneralModule.step, which calls self.grl_layer.step()
GrlStep ==
    /\ AtOp("grl_step")
    /\ grl_iter' = grl_iter + 1
    /\ batchLog' = Append(batchLog, Cur)
    /\ Advance
    /\ UNCHANGED << config, pure, scale, fwd, resolved,
                    error, src, optimizers, lr_scheduler, sched_steps,
                    best_acc, best_epoch, epoch, phase, num_iter, i, tradeoff,
                    epoch_acc, epoch_loss, reported, training, opt_steps, grad,
                    drawn, target_batch, source_batch, out, valAccs, phaseSum >>

\* loss.backward(): every parameter of the strategy is in the graph of the
\* loss, so every .grad accumulates one more backward pass.
Backward ==
    /\ AtOp("backward")
    /\ grad' = [o \in DOMAIN grad |-> grad[o] + 1]
    /\ batchLog' = Append(batchLog, Cur)
    /\ Advance
    /\ UNCHANGED << config, pure, scale, fwd, resolved,
                    error, src, optimizers, lr_scheduler, sched_steps,
                    best_acc, best_epoch, epoch, phase, num_iter, i, tradeoff,
                    epoch_acc, epoch_loss, reported, training, opt_steps,
                    grl_iter, drawn, target_batch, source_batch, out, valAccs,
                    phaseSum >>

\* optimizer.step(): the optimizer updates the tensors it was constructed
\* over (an update moves a value; here by one unit).
OptimizerStep ==
    /\ AtOp("step")
    /\ opt_steps' = [opt_steps EXCEPT ![Cur[2]] = @ + 1]
    /\ scale' = [m \in DOMAIN scale |->
                    IF m \in OptimizedParams(strategy, Cur[2]) THEN scale[m] - 1
                                                               ELSE scale[m]]
    /\ batchLog' = Append(batchLog, Cur)
    /\ Advance
    /\ UNCHANGED << config, pure, fwd, resolved,
                    error, src, optimizers, lr_scheduler, sched_steps,
                    best_acc, best_epoch, epoch, phase, num_iter, i, tradeoff,
                    epoch_acc, epoch_loss, reported, training, grad,
                    grl_iter, drawn, target_batch, source_batch, out, valAccs,
                    phaseSum >>

----------------------------------------------------------------------------
\* Mutant of IsBest: the record is overwritten after every val phase.
IsBest_Always(new_acc, best) == TRUE

\* Mutant of IsBest: the comparison is strict.
IsBest_Strict(new_acc, best) == GT(new_acc, best)

\* if new_acc >= best_acc:
IsBest(new_acc, best) == GE(new_acc, best)

\* What the phase summary logs: every key of epoch_loss (train phase only)
\* and every key of epoch_acc, each divided by num_iter.
Means(d, n) == [k \in DOMAIN d |-> << d[k], n >>]
Report(ph, loss, acc, n) ==
    [loss |-> IF ph = "train" THEN Means(loss, n) ELSE EmptyDict,
     acc |-> Means(acc, n)]

\* The end of a phase: the summary, and after a val phase the best record.
PhaseEnd ==
    /\ pc = "phase_end"
    /\ reported' = Report(phase, epoch_loss, epoch_acc, num_iter)
    /\ IF phase = "val"
          THEN LET new_acc == << Get(epoch_acc, "Target Data"), num_iter >>
               IN  /\ IF IsBest(new_acc, best_acc)
                         THEN best_acc' = new_acc /\ best_epoch' = epoch
                         ELSE UNCHANGED << best_acc, best_epoch >>
                   /\ valAccs' = Append(valAccs, << Get(phaseSum, "Target Data"), num_iter >>)
                   /\ pc' = "sched"
                   /\ phase' = phase
          ELSE /\ UNCHANGED << best_acc, best_epoch, valAccs >>
               /\ phase' = Phases[2]
               /\ pc' = "phase_head"
    /\ UNCHANGED << config, pure, scale, fwd, resolved,
                    ip, error, src, optimizers, lr_scheduler, sched_steps,
                    epoch, num_iter, i, tradeoff, epoch_acc, epoch_loss,
                    training, opt_steps, grad, grl_iter, drawn, target_batch,
                    source_batch, out, phaseSum, batchLog >>

\* if scheduler is not None: scheduler.step()
SteppedOnce(sched, count) == IF sched # "None" THEN count + 1 ELSE count

\* The end of an epoch: every scheduler that is not None is stepped.
StepSchedulers ==
    /\ pc = "sched"
    /\ sched_steps' = [s \in DOMAIN sched_steps |->
                          SteppedOnce(lr_scheduler[s], sched_steps[s])]
    /\ pc' = "epoch_head"
    /\ UNCHANGED << config, pure, scale, fwd, resolved,
                    ip, error, src, optimizers, lr_scheduler,
                    best_acc, best_epoch, epoch, phase, num_iter, i, tradeoff,
                    epoch_acc, epoch_loss, reported, training, opt_steps, grad,
                    grl_iter, drawn, target_batch, source_batch, out, valAccs,
                    phaseSum, batchLog >>

Next ==
    \/ InitData
    \/ ResolveSource
    \/ GetOptimizers
    \/ InitBest
    \/ EpochHead
    \/ PhaseHead
    \/ IterHead
    \/ DrawTarget
    \/ SelectSource
    \/ ZeroGrad
    \/ Forward
    \/ ComputeLoss
    \/ AccumulateAcc
    \/ AccumulateLoss
    \/ GrlStep
    \/ Backward
    \/ OptimizerStep
    \/ PhaseEnd
    \/ StepSchedulers

Spec == Init /\ [][Next]_vars

\* train() is a sequential program: a step that can be taken is taken.
FairSpec == Spec /\ WF_vars(Next)

----------------------------------------------------------------------------
\* The functions of the modules whose value depends on their arguments only:
\* the joint forward pass of a training iteration, shift_log of MDD.py and
\* InvariancePenaltyLoss.forward of IRM.py.  Each is an operator; a call
\* draws its arguments from a bounded set and an action applies the operator.

\* The largest number of samples of a batch.
MaxBatch == 4

\* A batch of n samples of one domain: the rows of a tensor, in order.
Rows(tag, n) == [j \in 1..n |-> << tag, j >>]

\* torch.cat((a, b), dim=0)
Cat(a, b) == a \o b

\* The network maps row j of its input to row j of its output.
Net(data) == [j \in 1..Len(data) |-> [out_of |-> data[j]]]

\* t.chunk(2, dim=0): chunks of ceil(len/2) rows, the last one shorter when
\* the length is odd; one chunk only when there is one row.
Chunk2(t) ==
    LET size == (Len(t) + 1) \div 2
    IN  IF Len(t) <= size THEN << t >>
        ELSE << SubSeq(t, 1, size), SubSeq(t, size + 1, Len(t)) >>

\* data = torch.cat((source_data, target_data), dim=0); the forward pass;
\* <first>, <second> = outputs.chunk(2, dim=0)
JointForward(source_data, target_data) == Chunk2(Net(Cat(source_data, target_data)))

\* shift_log works on reals; the model counts in units of the offset 1e-6,
\* so the offset is 1 and the clamp bound 1. is One.
Offset == 1
One == 1000000

\* torch.clamp(v, max=m): an upper bound only.
ClampMax(v, m) == IF v > m THEN m ELSE v

\* torch.log, kept symbolic: the logarithm of a positive a is the value
\* "log of a" (log is injective, and log of One is 0); log(0) is -inf and
\* the logarithm of a negative number is nan.
Log(a) ==
    IF a > 0 THEN [kind |-> "log", of |-> a]
    ELSE IF a = 0 THEN [kind |-> "-inf", of |-> 0]
    ELSE [kind |-> "nan", of |-> 0]

\* Mutant of shift_log: the clamp bounds the argument from below.
shift_log_ClampMin(x) == Log(IF x + Offset < One THEN One ELSE x + Offset)

\* torch.log(torch.clamp(x + offset, max=1.))
shift_log(x) == Log(ClampMax(x + Offset, One))

\* t[::2] and t[1::2]
EvenRows(t) == [j \in 1..((Len(t) + 1) \div 2) |-> t[2 * j - 1]]
OddRows(t) == [j \in 1..(Len(t) \div 2) |-> t[2 * j]]

\* The derivative of the cross entropy of one sample by the scale, at scale
\* 1, in quarter units.  A sample's prediction is its margin towards class
\* 1; with m the margin towards its label the derivative is -m * sigmoid(-m),
\* which is 3/4, 0, -1/4 (rounded) for m = -1, 0, 1.
SampleGrad(margin, label) ==
    LET m == IF label = 1 THEN margin ELSE 0 - margin
    IN  (0 - m) * (2 - m)

RECURSIVE SumGrads(_, _)
SumGrads(y, labels) ==
    IF y = << >> THEN 0
    ELSE SampleGrad(Head(y), Head(labels)) + SumGrads(Tail(y), Tail(labels))

\* torch.autograd.grad(F.cross_entropy(y * self.scale, labels), [self.scale]):
\* the mean over the samples, as a fraction.
ScaleGrad(y, labels) == << SumGrads(y, labels), Len(y) >>

\* Mutant of InvariancePenaltyLoss_forward: loss_2 is computed against labels[::2].
InvariancePenaltyLoss_forward_SameLabels(y, labels) ==
    LET grad_1 == ScaleGrad(EvenRows(y), EvenRows(labels))
        grad_2 == ScaleGrad(OddRows(y), SubSeq(EvenRows(labels), 1, Len(OddRows(y))))
    IN  << grad_1[1] * grad_2[1], grad_1[2] * grad_2[2] >>

\* InvariancePenaltyLoss.forward: penalty = torch.sum(grad_1 * grad_2)
InvariancePenaltyLoss_forward(y, labels) ==
    LET grad_1 == ScaleGrad(EvenRows(y), EvenRows(labels))
        grad_2 == ScaleGrad(OddRows(y), OddRows(labels))
    IN  << grad_1[1] * grad_2[1], grad_1[2] * grad_2[2] >>

\* The calls: a joint forward of a source batch and a target batch (in
\* supervised mode the source batch is the target batch), shift_log of a
\* value around a multiple of 1., the penalty of at least two predictions.
JointCalls ==
    UNION { { [fn |-> "joint_forward", source_data |-> sd, target_data |-> td] :
                sd \in {Rows("source", n) : n \in 1..MaxBatch} \cup {td} } :
            td \in {Rows("target", n) : n \in 1..MaxBatch} }
ShiftLogCalls ==
    { [fn |-> "shift_log", x |-> m * One + d] : m \in -2..2, d \in -2..2 }
PenaltyCalls ==
    UNION { { [fn |-> "irm", y |-> y, labels |-> labels] :
                y \in [1..n -> {-1, 0, 1}], labels \in [1..n -> {0, 1}] } :
            n \in 2..MaxBatch }

\* A constructed Trainset and one call; the arguments of train() play no
\* part in these calls and are held at one value.
PureInit ==
    /\ Constructed
    /\ train_mode = "supervised"
    /\ max_epoch = 0
    /\ loaderLen = [ph \in {"train", "val"} |-> 1]
    /\ \/ call \in JointCalls
       \/ strategy = "MDD" /\ call \in ShiftLogCalls
       \/ strategy = "IRM" /\ call \in PenaltyCalls
    /\ result = NoResult

trainset == << strategy, train_mode, max_epoch, loaderLen, pc, ip, error, src,
               optimizers, lr_scheduler, sched_steps, best_acc, best_epoch, epoch,
               phase, num_iter, i, tradeoff, epoch_acc, epoch_loss, reported,
               training, opt_steps, grad, grl_iter, drawn, target_batch,
               source_batch, out, valAccs, phaseSum, batchLog, scale, fwd,
               resolved >>

CallJointForward ==
    /\ call.fn = "joint_forward"
    /\ ~result.done
    /\ result' = [done |-> TRUE,
                  value |-> JointForward(call.source_data, call.target_data)]
    /\ UNCHANGED << trainset, call >>

CallShiftLog ==
    /\ call.fn = "shift_log"
    /\ ~result.done
    /\ result' = [done |-> TRUE, value |-> shift_log(call.x)]
    /\ UNCHANGED << trainset, call >>

CallPenalty ==
    /\ call.fn = "irm"
    /\ ~result.done
    /\ result' = [done |-> TRUE,
                  value |-> InvariancePenaltyLoss_forward(call.y, call.labels)]
    /\ UNCHANGED << trainset, call >>

PureNext ==
    \/ CallJointForward
    \/ CallShiftLog
    \/ CallPenalty

PureSpec == PureInit /\ [][PureNext]_vars
----------------------------------------------------------------------------
\* Positions of train(), used to state the properties.

NoBatchDrawn == \A k \in StreamKeys : drawn[k] = 0
NoParameterChanged == \A o \in DOMAIN opt_steps : opt_steps[o] = 0
BestUnassigned == best_acc = <<-1, 1>> /\ best_epoch = -1

\* Between the head of phase ph and its summary.
InPhase(ph) ==
    /\ phase = ph
    /\ pc \in {"iter_head", "draw_target", "select_source", "body", "phase_end"}

\* The number of train phases, and of val phases, that have run completely.
TrainPhasesDone ==
    IF epoch = 0 THEN 0 ELSE IF phase = "train" THEN epoch - 1 ELSE epoch
ValPhasesDone ==
    IF epoch = 0 THEN 0
    ELSE IF pc \in {"sched", "epoch_head", "done"} THEN epoch ELSE epoch - 1

\* The iterations of the current phase that have run completely.
ItersFinished == IF pc \in {"iter_head", "phase_end"} THEN i ELSE i - 1

\* The number of statements op the current iteration has executed.
CountOp(op) == Len(SelectSeq(batchLog, LAMBDA e : e[1] = op))

----------------------------------------------------------------------------
\* C1: in every strategy, train() with train_mode = 'multi_source' raises
\* before any optimizer or scheduler is constructed, before any epoch begins
\* and before any batch is drawn; the failed call changes no parameter, no
\* best record and no GRL state.
C1_MultiSourceFailsFast ==
    train_mode = "multi_source" =>
        /\ pc \in {"start", "mode", "raised"}
        /\ pc = "raised" => error = "Exception"
        /\ optimizers = {}
        /\ lr_scheduler = EmptyDict
        /\ epoch = 0
        /\ NoBatchDrawn
        /\ NoParameterChanged
        /\ BestUnassigned
        /\ grl_iter = 0
        /\ \A n \in DOMAIN training : training[n]

C1_Witness ==
    /\ train_mode = "multi_source"
    /\ pc = "raised"
    /\ error = "Exception"

\* C2: for every train_mode outside supervised, single_source and
\* source_combine, the failure of train() happens before the first epoch
\* begins and before any batch is drawn.
C2_InvalidModeFailsBeforeFirstEpoch ==
    (train_mode \notin SupportedModes /\ error # "none") =>
        /\ epoch = 0
        /\ NoBatchDrawn

\* C3: best_acc starts at 0.0 with best_epoch = 0, never decreases once
\* assigned, and (best_acc, best_epoch) changes only at the end of a
\* validation phase.
C3_BestMonotone ==
    [][ /\ pc = "best" => (best_acc' = <<0, 1>> /\ best_epoch' = 0)
        /\ best_epoch >= 0 => GE(best_acc', best_acc)
        /\ (best_epoch >= 0 /\ << best_acc, best_epoch >>' # << best_acc, best_epoch >>)
              => (pc = "phase_end" /\ phase = "val")
      ]_vars

C3_Witness ==
    /\ Len(valAccs) = 2
    /\ GT(valAccs[1], valAccs[2])
    /\ best_acc = valAccs[1]
    /\ best_epoch = 1

\* C4: after the validation phase of epoch e, best_acc is the maximum of the
\* validation accuracies of epochs 1..e and best_epoch is the latest epoch
\* of 1..e that achieved it; so best_epoch is in 1..e even when every
\* accuracy is 0.
C4_BestIsLatestMax ==
    LET e == Len(valAccs) IN
    e >= 1 =>
        /\ e = ValPhasesDone
        /\ best_epoch \in 1..e
        /\ FracEq(best_acc, valAccs[best_epoch])
        /\ \A j \in 1..e : GE(best_acc, valAccs[j])
        /\ \A j \in (best_epoch + 1)..e : GT(best_acc, valAccs[j])

C4_Witness ==
    /\ Len(valAccs) = 2
    /\ FracEq(valAccs[1], valAccs[2])
    /\ valAccs[1][1] > 0
    /\ best_epoch = 2

\* C5: every value reported at the end of a phase is the sum of the
\* contributions made to that metric during that phase of that epoch,
\* divided by the phase's num_iter; the metrics reported are exactly those
\* that received a contribution in the phase.
JustReported == (pc = "phase_head" /\ phase = "val") \/ pc = "sched"
ReportedPhase == IF pc = "sched" THEN "val" ELSE "train"
C5_ReportedIsPhaseMean ==
    JustReported =>
        /\ (DOMAIN reported.loss) \cup (DOMAIN reported.acc) = DOMAIN phaseSum
        /\ (DOMAIN reported.loss) \cap (DOMAIN reported.acc) = {}
        /\ \A k \in DOMAIN reported.loss :
              reported.loss[k] = << phaseSum[k], loaderLen[ReportedPhase] >>
        /\ \A k \in DOMAIN reported.acc :
              reported.acc[k] = << phaseSum[k], loaderLen[ReportedPhase] >>

C5_Witness ==
    /\ pc = "sched"
    /\ epoch = 2
    /\ loaderLen["val"] = 2
    /\ reported.acc["Target Data"] = << 1, 2 >>
    /\ valAccs[1] = << 2, 2 >>
    /\ Get(epoch_loss, "Step 3: Minimize discrepancy") > 0

\* C6: a run with a supported train_mode goes through the epochs 1..max_epoch
\* in order; in each epoch the train phase runs completely, then the val
\* phase, then every scheduler that is not None is stepped once; a phase
\* executes exactly num_iter iterations, num_iter being the batch count of
\* the phase's target stream, and draws one target batch per iteration.
C6_EpochStateMachine ==
    (train_mode \in SupportedModes /\ epoch >= 1) =>
        /\ epoch <= max_epoch
        /\ pc = "done" => epoch = max_epoch
        /\ phase \in {"train", "val"}
        /\ Len(valAccs) = ValPhasesDone
        /\ \A ph \in {"train", "val"} :
              InPhase(ph) =>
                  /\ num_iter = loaderLen[ph]
                  /\ i \in 0..num_iter
                  /\ pc = "phase_end" => i = num_iter
                  /\ pc \in {"draw_target", "select_source", "body"} => i >= 1
        /\ drawn[Key("train")] =
              TrainPhasesDone * loaderLen["train"]
                 + (IF InPhase("train")
                       THEN (IF pc = "draw_target" THEN i - 1 ELSE i) ELSE 0)
        /\ drawn[Key("val")] =
              ValPhasesDone * loaderLen["val"]
                 + (IF InPhase("val")
                       THEN (IF pc = "draw_target" THEN i - 1 ELSE i) ELSE 0)
        /\ InPhase("val") => TrainPhasesDone = epoch
        /\ pc = "sched" => (TrainPhasesDone = epoch /\ ValPhasesDone = epoch)
        /\ DOMAIN sched_steps = Schedulers(strategy)
        /\ \A sch \in DOMAIN sched_steps :
              sched_steps[sch] =
                 IF lr_scheduler[sch] = "None" THEN 0
                 ELSE IF pc \in {"epoch_head", "done"} THEN epoch ELSE epoch - 1

C6_Witness ==
    /\ strategy = "MCD"
    /\ train_mode \in SupportedModes
    /\ pc = "epoch_head"
    /\ epoch = 2
    /\ loaderLen = [train |-> 2, val |-> 1]
    /\ sched_steps = [lr_scheduler_G |-> 2, lr_scheduler_C |-> 2]
    /\ drawn[Key("train")] = 4
    /\ drawn[Key("val")] = 2

\* C7: with a supported train_mode train() terminates without raising after
\* exactly max_epoch train phases and max_epoch val phases; with
\* train_mode = 'multi_source' it terminates by raising.  Termination is
\* stated by a rank: Rank bounds the number of statements still to execute,
\* it is never negative and every step lowers it, and train() can stop
\* only where it has returned or raised.
IterCost(ph) == Len(BodyOf(strategy, ph)) + (IF ph = "train" THEN 3 ELSE 2)
PhaseCost(ph) == loaderLen[ph] * IterCost(ph) + 3
EpochCost == PhaseCost("train") + PhaseCost("val") + 2
RankAtEpochHead(e) == (max_epoch - e) * EpochCost + 1
RankAfterPhase(ph) ==
    (IF ph = "train" THEN PhaseCost("val") ELSE 0) + 1 + RankAtEpochHead(epoch)
RankAtIterHead(done) ==
    (num_iter - done) * IterCost(phase) + 2 + RankAfterPhase(phase)
Rank ==
    CASE pc = "start" -> 4 + RankAtEpochHead(0)
      [] pc = "mode" -> 3 + RankAtEpochHead(0)
      [] pc = "optim" -> 2 + RankAtEpochHead(0)
      [] pc = "best" -> 1 + RankAtEpochHead(0)
      [] pc = "epoch_head" -> RankAtEpochHead(epoch)
      [] pc = "sched" -> 1 + RankAtEpochHead(epoch)
      [] pc = "phase_head" -> PhaseCost(phase) + RankAfterPhase(phase)
      [] pc = "phase_end" -> 1 + RankAfterPhase(phase)
      [] pc = "iter_head" -> RankAtIterHead(i)
      [] pc = "draw_target" -> IterCost(phase) - 1 + RankAtIterHead(i)
      [] pc = "select_source" -> IterCost(phase) - 2 + RankAtIterHead(i)
      [] pc = "body" -> Len(Body) - ip + 1 + RankAtIterHead(i)
      [] OTHER -> 0
C7_Terminates ==
    /\ [][Rank' < Rank]_vars
    /\ [](Rank >= 0)
    /\ [](pc \notin {"done", "raised"} => ENABLED Next)
    /\ [](train_mode \in SupportedModes => (error = "none" /\ pc # "raised"))
    /\ [](train_mode = "multi_source" => pc # "done")
    /\ []((train_mode \in SupportedModes /\ pc = "done") =>
             /\ epoch = max_epoch
             /\ Len(valAccs) = max_epoch
             /\ TrainPhasesDone = max_epoch
             /\ drawn[Key("train")] = max_epoch * loaderLen["train"]
             /\ drawn[Key("val")] = max_epoch * loaderLen["val"])

C7_Witness ==
    /\ train_mode = "source_combine"
    /\ pc = "done"
    /\ error = "none"
    /\ max_epoch = 2
    /\ Len(valAccs) = 2

\* C8: in MCD every training batch steps the optimizers in the order
\* G, C (Step 1), C (Step 2), G, G, G, G (Step 3): 5 steps of optimizer_G and
\* 2 of optimizer_C per batch, and no other step.
StepsOfBatch ==
    LET steps == SelectSeq(batchLog, LAMBDA e : e[1] = "step")
    IN  [j \in 1..Len(steps) |-> steps[j][2]]
MCD_StepOrder ==
    << "optimizer_G", "optimizer_C", "optimizer_C",
       "optimizer_G", "optimizer_G", "optimizer_G", "optimizer_G" >>
TrainItersBefore ==
    TrainPhasesDone * loaderLen["train"]
        + (IF InPhase("train") /\ i >= 1 THEN i - 1 ELSE 0)
StepsInBatch(o) ==
    IF InPhase("train")
       THEN Len(SelectSeq(batchLog, LAMBDA e : e = <<"step", o>>)) ELSE 0
C8_MCDStepOrder ==
    strategy = "MCD" =>
        /\ InPhase("train") =>
              /\ Len(StepsOfBatch) <= Len(MCD_StepOrder)
              /\ StepsOfBatch = SubSeq(MCD_StepOrder, 1, Len(StepsOfBatch))
              /\ (pc \in {"iter_head", "phase_end"} /\ i >= 1)
                    => StepsOfBatch = MCD_StepOrder
        /\ InPhase("val") => StepsOfBatch = << >>
        /\ opt_steps["optimizer_G"] =
              5 * TrainItersBefore + StepsInBatch("optimizer_G")
        /\ opt_steps["optimizer_C"] =
              2 * TrainItersBefore + StepsInBatch("optimizer_C")

C8_Witness ==
    /\ strategy = "MCD"
    /\ InPhase("train")
    /\ pc = "iter_head"
    /\ epoch = 2
    /\ i = 2
    /\ StepsOfBatch = MCD_StepOrder
    /\ opt_steps = [optimizer_G |-> 20, optimizer_C |-> 8]

\* C9: in MDD the gradient-reversal schedule is advanced exactly once per
\* training batch, after the batch's loss is computed and before its
\* backward pass and optimizer step, never in a validation phase, and never
\* reset: after e epochs the number of advances is the number of training
\* batches of epochs 1..e.
Positions(op) == {j \in 1..Len(batchLog) : batchLog[j][1] = op}
C9_GrlOncePerTrainBatch ==
    strategy = "MDD" =>
        /\ grl_iter = TrainItersBefore
                         + (IF InPhase("train") THEN CountOp("grl_step") ELSE 0)
        /\ CountOp("grl_step") <= 1
        /\ (InPhase("train") /\ pc \in {"iter_head", "phase_end"} /\ i >= 1)
              => CountOp("grl_step") = 1
        /\ InPhase("val") => CountOp("grl_step") = 0
        /\ \A g \in Positions("grl_step") :
              /\ \E l \in Positions("loss") : l < g
              /\ \A b \in Positions("backward") \cup Positions("step") : g < b
        /\ \A b \in Positions("backward") \cup Positions("step") :
              \E g \in Positions("grl_step") : g < b

C9_Witness ==
    /\ strategy = "MDD"
    /\ pc = "done"
    /\ max_epoch = 2
    /\ loaderLen["train"] = 2
    /\ grl_iter = 4

\* C10: with 'supervised' the source batch of a training iteration is the
\* target batch of that iteration and no source stream is drawn from; with
\* 'single_source' one batch per training iteration is drawn from the stream
\* of source_name[0]; with 'source_combine' one batch per training iteration
\* is drawn from the combined source; a validation iteration draws no
\* source batch.
SourceKeys == StreamKeys \ {Key("train"), Key("val")}
SourceDrawsExpected ==
    TrainPhasesDone * loaderLen["train"]
        + (IF InPhase("train")
              THEN (IF pc \in {"draw_target", "select_source"} THEN i - 1 ELSE i)
              ELSE 0)
SelectedKey ==
    CASE train_mode = "single_source" -> Key(SourceName[1])
      [] train_mode = "source_combine" -> SourceName
      [] OTHER -> None
C10_SourceSelection ==
    train_mode \in SupportedModes =>
        /\ \A k \in SourceKeys :
              drawn[k] = IF k = SelectedKey THEN SourceDrawsExpected ELSE 0
        /\ (pc = "body" /\ phase = "train") =>
              IF train_mode = "supervised"
                 THEN /\ source_batch = target_batch
                      /\ target_batch.key = Key("train")
                      /\ target_batch.n = drawn[Key("train")]
                 ELSE /\ source_batch.key = SelectedKey
                      /\ source_batch.n = drawn[SelectedKey]
                      /\ target_batch.key = Key("train")
        /\ InPhase("val") =>
              \A j \in 1..Len(batchLog) : batchLog[j] # <<"draw", "src">>
        /\ \A j \in 1..Len(batchLog) :
              batchLog[j][1] = "draw" => j = IF batchLog[j][2] = "src" THEN 2 ELSE 1

C10_Witness ==
    /\ train_mode = "single_source"
    /\ pc = "body"
    /\ phase = "train"
    /\ epoch = 2
    /\ source_batch.key = << "S1" >>
    /\ source_batch.n = 3
    /\ target_batch.n = 3
    /\ drawn[SourceName] = 0

----------------------------------------------------------------------------
\* C11: in a training iteration of every strategy the joint input is the
\* source batch followed by the target batch, and the two chunks the joint
\* output is split into are, in that order, exactly the outputs of the source
\* batch's samples and exactly the outputs of the target batch's samples,
\* for every pair of batches, batches of different sizes included.
C11_ChunksAreSourceAndTarget ==
    call.fn = "joint_forward" /\ result.done =>
        result.value = << Net(call.source_data), Net(call.target_data) >>

----------------------------------------------------------------------------
\* C12, as the specification states it: shift_log(x) is 0 (the logarithm of
\* 1.) for every x >= 1, and log(1e-6) for every x <= 0, the argument of the
\* logarithm being floored at the offset.
C12_ShiftLogFloorsAtOffset ==
    call.fn = "shift_log" /\ result.done =>
        /\ call.x >= One => result.value = Log(One)
        /\ call.x <= 0 => result.value = Log(Offset)

\* C12, amended: shift_log(x) is 0 for every x >= 1 and log(1e-6) at x = 0;
\* below 0 the argument of the logarithm is x + 1e-6 with no floor, so the
\* result is -inf at x = -1e-6 and nan for every x < -1e-6.
C12_ShiftLogClampsFromAboveOnly ==
    call.fn = "shift_log" /\ result.done =>
        /\ call.x >= One => result.value = Log(One)
        /\ call.x = 0 => result.value = Log(Offset)
        /\ call.x = 0 - Offset => result.value.kind = "-inf"
        /\ call.x < 0 - Offset => result.value.kind = "nan"

\* shift_log has returned nan for x = -1.
C12_Witness ==
    /\ call.fn = "shift_log"
    /\ result.done
    /\ call.x = 0 - One
    /\ result.value.kind = "nan"

----------------------------------------------------------------------------
\* The rows of t with every even-indexed row exchanged with the odd-indexed
\* row that follows it (t has an even number of rows).
Swap(t) == [j \in 1..Len(t) |-> IF j % 2 = 1 THEN t[j + 1] ELSE t[j - 1]]

\* The fraction sum / count of the per-sample derivatives at the positions
\* (counted from 0, as the code counts) of parity par.
GradAt(y, labels, par) ==
    LET at == {j \in 1..Len(y) : (j - 1) % 2 = par}
        RECURSIVE Total(_)
        Total(js) == IF js = {} THEN 0
                     ELSE LET j == CHOOSE k \in js : TRUE
                          IN  SampleGrad(y[j], labels[j]) + Total(js \ {j})
    IN  << Total(at), Cardinality(at) >>

\* C13: the penalty InvariancePenaltyLoss.forward returns is the product of
\* the gradient of the even-indexed sub-batch and the gradient of the
\* odd-indexed sub-batch, and it does not change when the samples of the
\* even-indexed sub-batch and those of the odd-indexed sub-batch change
\* places (the scale and the loss function being the same).
C13_PenaltySymmetric ==
    call.fn = "irm" /\ result.done /\ Len(call.y) % 2 = 0 =>
        LET g_even == GradAt(call.y, call.labels, 0)
            g_odd == GradAt(call.y, call.labels, 1)
        IN  /\ FracEq(result.value, << g_even[1] * g_odd[1], g_even[2] * g_odd[2] >>)
            /\ FracEq(result.value,
                      InvariancePenaltyLoss_forward(Swap(call.y), Swap(call.labels)))

\* A penalty of four samples was computed whose two sub-batches have
\* different, non-zero gradients.
C13_Witness ==
    /\ call.fn = "irm"
    /\ result.done
    /\ Len(call.y) = 4
    /\ result.value[1] # 0
    /\ ~FracEq(GradAt(call.y, call.labels, 0), GradAt(call.y, call.labels, 1))
    /\ Swap(call.y) # call.y

----------------------------------------------------------------------------
\* C14: in IRM the scale of the penalty module is 1.0 after construction and
\* at every point of train(), whatever the number of batches and epochs: no
\* optimizer that train() constructs is built over it, and no statement of
\* train() writes it.
C14_ScaleStaysOne ==
    strategy = "IRM" =>
        /\ scale["irm"] = 1
        /\ \A o \in optimizers : "irm" \notin OptimizedParams(strategy, o)

\* IRM has run two epochs to the end and its optimizer has stepped.
C14_Witness ==
    /\ strategy = "IRM"
    /\ pc = "done"
    /\ epoch = 2
    /\ opt_steps["optimizer"] >= 2
    /\ scale["irm"] = 1

----------------------------------------------------------------------------
\* C15: from the head of a validation phase to its summary no statement
\* zeroes or accumulates a gradient, steps an optimizer, advances the GRL
\* schedule or steps a scheduler: the parameters, the optimizer state, the
\* GRL count, the tradeoff and the loss accumulators are at the end of the
\* phase what they were at its start; the batch statements are forward
\* passes and accuracy sums, and the best record changes in the summary only.
C15_ValidationIsReadOnly ==
    [][ (phase = "val" /\ pc \in {"phase_head", "iter_head", "draw_target",
                                    "body", "phase_end"})
          => /\ UNCHANGED << opt_steps, grad, grl_iter, sched_steps, scale,
                             optimizers, lr_scheduler, epoch_loss, tradeoff >>
             /\ pc = "body" => Cur[1] \in {"forward", "acc"}
             /\ pc # "phase_end" => UNCHANGED << best_acc, best_epoch >>
             /\ pc # "phase_head" =>
                   \A n \in Nets(strategy) : ~training[n] /\ ~training'[n] ]_vars

\* The second validation phase has summed an accuracy after training steps.
C15_Witness ==
    /\ strategy = "MDD"
    /\ phase = "val"
    /\ pc = "phase_end"
    /\ epoch = 2
    /\ Get(epoch_acc, "Target Data") >= 1
    /\ grl_iter >= 2
    /\ opt_steps["optimizer"] >= 2

----------------------------------------------------------------------------
\* C16: whenever a forward pass runs, the mode flag of every sub-network is
\* that of the current phase (training in train, evaluation in val); the MDD
\* network returns a pair in every forward of a train phase and a single
\* output in every forward of a val phase.
C16_ForwardInPhaseMode ==
    /\ pc \in {"iter_head", "draw_target", "select_source", "body", "phase_end"}
          => training = [n \in Nets(strategy) |-> phase = "train"]
    /\ fwd.returns # "none" =>
          /\ fwd.training = [n \in Nets(strategy) |-> phase = "train"]
          /\ strategy = "MDD" =>
                fwd.returns = (IF phase = "train" THEN "pair" ELSE "single")

\* An MDD validation forward of the second epoch has returned one output.
C16_Witness ==
    /\ strategy = "MDD"
    /\ phase = "val"
    /\ epoch = 2
    /\ pc = "body"
    /\ fwd.returns = "single"

----------------------------------------------------------------------------
\* C17: in MCD, whenever an optimizer is about to step, the gradient buffers
\* of its parameters hold exactly one backward pass, the latest one: what
\* accumulated while the optimizer was not stepped has been zeroed.
C17_MCDStepsOnOneBackward ==
    (strategy = "MCD" /\ AtOp("step")) =>
        /\ grad[Cur[2]] = 1
        /\ batchLog[Len(batchLog)] = <<"backward", "loss">>
              \/ (Len(batchLog) >= 2
                    /\ batchLog[Len(batchLog)][1] = "step"
                    /\ batchLog[Len(batchLog) - 1] = <<"backward", "loss">>)

\* The last repetition of Step 3 is about to step optimizer_G while the
\* classifiers' buffers hold the five backward passes since their last zeroing.
C17_Witness ==
    /\ strategy = "MCD"
    /\ AtOp("step")
    /\ ip = Len(Body)
    /\ Cur[2] = "optimizer_G"
    /\ grad = [optimizer_G |-> 1, optimizer_C |-> 5]

----------------------------------------------------------------------------
\* The zero_grad, forward, backward and step statements of the current
\* iteration, in the order they ran.
CoreOps ==
    LET core == SelectSeq(batchLog,
                          LAMBDA e : e[1] \in {"zero_grad", "forward", "backward", "step"})
    IN  [j \in 1..Len(core) |-> core[j][1]]
SingleStepOrder == << "zero_grad", "forward", "backward", "step" >>

\* C18: in IRM and MDD every training batch runs one zero_grad, one forward
\* pass of the concatenated batch, one backward pass and one optimizer step,
\* in that order, and the optimizer has stepped once per training batch run:
\* after e epochs, e times the number of batches of an epoch.
C18_OneStepPerTrainBatch ==
    strategy \in {"IRM", "MDD"} =>
        /\ InPhase("train") =>
              /\ Len(CoreOps) <= Len(SingleStepOrder)
              /\ CoreOps = SubSeq(SingleStepOrder, 1, Len(CoreOps))
              /\ (pc \in {"iter_head", "phase_end"} /\ i >= 1)
                    => CoreOps = SingleStepOrder
              /\ \A j \in Positions("forward") : batchLog[j] = <<"forward", "data">>
        /\ opt_steps["optimizer"] = TrainItersBefore + StepsInBatch("optimizer")
        /\ (pc = "done" /\ train_mode \in SupportedModes)
              => opt_steps["optimizer"] = loaderLen["train"] * max_epoch

\* IRM has finished two epochs of two training batches each.
C18_Witness ==
    /\ strategy = "IRM"
    /\ pc = "done"
    /\ max_epoch = 2
    /\ loaderLen["train"] = 2
    /\ opt_steps["optimizer"] = 4

----------------------------------------------------------------------------
\* The train phases whose head has run.
TrainPhasesStarted ==
    IF epoch = 0 THEN 0
    ELSE IF phase = "train" /\ pc = "phase_head" THEN epoch - 1 ELSE epoch

\* C19: the tradeoff is resolved once in every epoch, from the number of
\* that epoch, at the head of the train phase before its first batch is
\* drawn; every batch of the epoch (every sub-step of MCD) sees that value,
\* and no validation phase resolves it.
C19_TradeoffOncePerEpoch ==
    /\ Len(resolved) = TrainPhasesStarted
    /\ \A k \in 1..Len(resolved) : resolved[k] = << k, "train", k >>
    /\ (InPhase("train") \/ InPhase("val")) => tradeoff = epoch
    /\ (phase = "train" /\ pc = "phase_head") => drawn[Key("train")] = TrainItersBefore

\* The last statement of the last training batch of epoch 2 of MCD.
C19_Witness ==
    /\ strategy = "MCD"
    /\ phase = "train"
    /\ pc = "body"
    /\ ip = Len(Body)
    /\ epoch = 2
    /\ i = num_iter
    /\ resolved = << <<1, "train", 1>>, <<2, "train", 2>> >>
====
